---- MODULE Spec2Model ----
(***************************************************************************)
(* Model of the chat-completion gateway handler                            *)
(* (src/ai-service/handler/chat.py): conversation truncation, model        *)
(* capability adaptation, the request prelude of chat / chat_stream and    *)
(* the SSE stream encoder generate_stream.                                 *)
(*                                                                         *)
(* Text is kept run-length encoded: a Python str is a sequence of runs     *)
(* [c |-> character, n |-> repetitions], no two neighbouring runs with the *)
(* same character.  This keeps 1500-character contents small while len,    *)
(* slicing, concatenation and endswith are computed exactly.               *)
(***************************************************************************)
EXTENDS Integers, Sequences, FiniteSets, TLC

(***************************************************************************)
(* Bounds of the model                                                     *)
(***************************************************************************)
\* longest conversation built at ingress
MaxMsgs == 8
\* how many messages of one conversation may exceed the length limit
MaxLong == 1
\* longest conversation of a payload handed to _adapt_payload directly
MaxAdaptMsgs == 3
\* most chunks the upstream sequence delivers to one stream
MaxChunks == 4
\* entries in the model_list of a configuration file
MaxEntries == 3
\* calls of chat_stream in flight at once
NumStreams == 2
\* most chunks delivered to each of them
MaxConcChunks == 2

(***************************************************************************)
(* Program constants                                                       *)
(***************************************************************************)
\* ChatHandler._max_history_messages
_max_history_messages == 6
\* ChatHandler._max_message_length
_max_message_length == 1500
\* the token ceiling _adapt_payload gives a thinking model
ThinkingFloor == 16384

(***************************************************************************)
(* Python str, run-length encoded                                          *)
(***************************************************************************)
\* the str made of n copies of character ch
Rep(ch, n) == IF n <= 0 THEN <<>> ELSE <<[c |-> ch, n |-> n]>>

\* len(s)
RECURSIVE StrLen(_)
StrLen(s) == IF s = <<>> THEN 0 ELSE s[1].n + StrLen(Tail(s))

\* s + t
Cat(s, t) ==
    IF s = <<>> THEN t
    ELSE IF t = <<>> THEN s
    ELSE IF s[Len(s)].c = t[1].c
         THEN SubSeq(s, 1, Len(s) - 1)
                \o <<[c |-> t[1].c, n |-> s[Len(s)].n + t[1].n]>>
                \o Tail(t)
         ELSE s \o t

\* s[:k]
RECURSIVE Take(_, _)
Take(s, k) ==
    IF k <= 0 \/ s = <<>> THEN <<>>
    ELSE IF s[1].n <= k THEN Cat(<<s[1]>>, Take(Tail(s), k - s[1].n))
    ELSE <<[c |-> s[1].c, n |-> k]>>

\* s.endswith(ch) for a one-character ch
EndsWith(s, ch) == s # <<>> /\ s[Len(s)].c = ch

\* the str spelled by a sequence of characters
RECURSIVE Lit(_)
Lit(chars) == IF chars = <<>> THEN <<>> ELSE Cat(Rep(chars[1], 1), Lit(Tail(chars)))

\* the literal "..."
Ellipsis == Rep(".", 3)

(***************************************************************************)
(* ChatMessage                                                             *)
(***************************************************************************)
Roles == {"system", "user", "assistant"}

ChatMessage(role, content) == [role |-> role, content |-> content]

\* The characters that open the content of the message at each position, so
\* that every message of a conversation is told apart from the others.
Tags == <<"A", "B", "C", "D", "E", "F", "G", "H", "I", "J", "K", "L">>

\* A content of the given length: the position's tag followed by "x"s.
ContentOf(i, len) == Cat(Rep(Tags[i], 1), Rep("x", len - 1))

\* The content lengths offered at ingress: on the limit and just over it.
Lengths == {_max_message_length, _max_message_length + 1}

NumLong(msgs) ==
    Cardinality({i \in 1..Len(msgs) : StrLen(msgs[i].content) > _max_message_length})

(***************************************************************************)
(* ChatHandler._truncate_conversation_history                              *)
(***************************************************************************)
\* mutant of LastN: s[:k], the oldest messages kept
FirstN(s, k) == IF Len(s) <= k THEN s ELSE SubSeq(s, 1, k)

\* s[-k:]
LastN(s, k) == IF Len(s) <= k THEN s ELSE SubSeq(s, Len(s) - k + 1, Len(s))

\* mutant of ClipMessage: >= in place of >
ClipMessageAtLimit(msg, max_message_length) ==
    ChatMessage(msg.role,
                IF StrLen(msg.content) >= max_message_length
                THEN Cat(Take(msg.content, max_message_length), Ellipsis)
                ELSE msg.content)

\* mutant of ClipMessage: the marker is appended to the whole content
ClipMessageAppending(msg, max_message_length) ==
    ChatMessage(msg.role,
                IF StrLen(msg.content) > max_message_length
                THEN Cat(msg.content, Ellipsis)
                ELSE msg.content)

\* the body of both truncation loops: content[:limit] + "..." when too long
ClipMessage(msg, max_message_length) ==
    ChatMessage(msg.role,
                IF StrLen(msg.content) > max_message_length
                THEN Cat(Take(msg.content, max_message_length), Ellipsis)
                ELSE msg.content)

IsSystem(msg) == msg.role = "system"
NotSystem(msg) == msg.role # "system"

\* the loop that rebuilds each message with its content clipped
ClipAll(msgs, max_message_length) ==
    [i \in 1..Len(msgs) |-> ClipMessage(msgs[i], max_message_length)]

TruncateWith(msgs, max_messages, max_message_length) ==
    IF Len(msgs) <= max_messages
    THEN ClipAll(msgs, max_message_length)
    ELSE LET system_messages == SelectSeq(msgs, IsSystem)
             conversation_messages == SelectSeq(msgs, NotSystem)
             recent_messages == LastN(conversation_messages, max_messages)
             truncated == ClipAll(recent_messages, max_message_length)
         IN  system_messages \o truncated

\* the call with the defaults taken from the class attributes
TruncateConversationHistory(msgs) ==
    TruncateWith(msgs, _max_history_messages, _max_message_length)

(***************************************************************************)
(* Identifiers (model names, URLs): plain sequences of characters, so that *)
(* Python's substring test `x in model` is computed on the characters.     *)
(***************************************************************************)
\* sub in s
Contains(s, sub) ==
    \E i \in 1..(Len(s) - Len(sub) + 1) : SubSeq(s, i, i + Len(sub) - 1) = sub

AzureNano == <<"a","z","u","r","e","/","g","p","t","-","5","-","n","a","n","o">>
O1Mini == <<"o","1","-","m","i","n","i">>

\* the identifiers offered to _adapt_payload
ModelIds ==
    { AzureNano,
      O1Mini,
      <<"o","3","-","m","i","n","i">>,
      <<"o","1">>,
      <<"g","p","t","-","o","3">>,
      <<"O","1","-","m","i","n","i">>,
      <<"p","r","o","1","-","x">>,
      <<"r","1","-","r","e","a","s","o","n","e","r">>,
      <<"t","h","i","n","k","i","n","g","-","2">>,
      <<"g","p","t","-","4","o">> }

\* the caller's token ceilings offered: the field's range is (0, 16384]
TokenCeilings == {1, 8192, ThinkingFloor - 1, ThinkingFloor}

(***************************************************************************)
(* ChatRequest                                                             *)
(***************************************************************************)
\* the field defaults of ChatRequest; temperature in tenths
DefaultTemperature == 10
DefaultMaxCompletionTokens == 8192
DefaultModel == AzureNano

ChatRequest(msgs, temperature, max_completion_tokens, model) ==
    [messages |-> msgs, temperature |-> temperature,
     max_completion_tokens |-> max_completion_tokens, model |-> model]

\* mutant of ValidateMessages: the user-role test is left out
ValidateMessagesNonEmpty(msgs) == msgs # <<>>

\* ChatRequest.validate_messages: TRUE when construction succeeds
ValidateMessages(msgs) ==
    /\ msgs # <<>>
    /\ \E i \in 1..Len(msgs) : msgs[i].role = "user"

\* no request: the value of request-typed variables before one exists
NoRequest == ChatRequest(<<>>, DefaultTemperature, DefaultMaxCompletionTokens, <<>>)

(***************************************************************************)
(* ChatHandler._to_openai_messages                                         *)
(***************************************************************************)
\* ChatHandler._default_system_prompt, "You are a helpful assistant."
DefaultSystemPrompt ==
    Lit(<<"Y","o","u"," ","a","r","e"," ","a"," ","h","e","l","p","f","u","l"," ",
          "a","s","s","i","s","t","a","n","t",".">>)

\* mutant of ToOpenaiMessages: the default prompt is prepended to every list
ToOpenaiMessagesAlways(msgs) ==
    <<[role |-> "system", content |-> DefaultSystemPrompt]>>
        \o [i \in 1..Len(msgs) |-> [role |-> msgs[i].role, content |-> msgs[i].content]]

\* lines 165-183
ToOpenaiMessages(msgs) ==
    LET has_system == \E i \in 1..Len(msgs) : msgs[i].role = "system"
        converted == IF ~has_system
                     THEN <<[role |-> "system", content |-> DefaultSystemPrompt]>>
                     ELSE <<>>
    IN  converted \o [i \in 1..Len(msgs) |->
                         [role |-> msgs[i].role, content |-> msgs[i].content]]

(***************************************************************************)
(* ChatHandler._adapt_payload                                              *)
(***************************************************************************)
IsThinking(model) ==
    \/ Contains(model, <<"r","e","a","s","o","n","e","r">>)
    \/ Contains(model, <<"t","h","i","n","k","i","n","g">>)
    \/ Contains(model, <<"o","1">>)
    \/ Contains(model, <<"o","3">>)

\* mutant of BoostedMaxTokens: the boost without the is_thinking test
BoostedMaxTokensAnyModel(model, max_completion_tokens) ==
    IF max_completion_tokens < ThinkingFloor
    THEN ThinkingFloor
    ELSE max_completion_tokens

\* step 1: the ceiling left in payload.max_completion_tokens
BoostedMaxTokens(model, max_completion_tokens) ==
    IF IsThinking(model) /\ max_completion_tokens < ThinkingFloor
    THEN ThinkingFloor
    ELSE max_completion_tokens

\* the test guarding step 3
IsO1O3Family(model) ==
    Contains(model, <<"o","1","-">>) \/ Contains(model, <<"o","3","-">>)

\* "[SYSTEM INSTRUCTION]"
SystemInstructionMarker ==
    Lit(<<"[","S","Y","S","T","E","M"," ","I","N","S","T","R","U","C","T","I","O","N","]">>)

\* the f-string's literal part, "[SYSTEM INSTRUCTION]\n"
SystemInstructionPrefix == Cat(SystemInstructionMarker, Rep("\n", 1))

\* mutant of AdaptRole: the system message becomes a developer message
AdaptRoleDeveloper(msg) ==
    IF msg.role = "system"
    THEN [role |-> "developer", content |-> Cat(SystemInstructionPrefix, msg.content)]
    ELSE msg

\* the body of the loop of step 3
AdaptRole(msg) ==
    IF msg.role = "system"
    THEN [role |-> "user", content |-> Cat(SystemInstructionPrefix, msg.content)]
    ELSE msg

\* the handler's proxy settings, read from the environment in __init__
ApiBase == "LITELLM_PROXY_URL"
ApiKey == "LITELLM_MASTER_KEY"

\* the payload as _adapt_payload leaves it: the ceiling is written back
AdaptedPayload(model, payload) ==
    [payload EXCEPT !.max_completion_tokens =
                        BoostedMaxTokens(model, payload.max_completion_tokens)]

\* the returned keyword arguments of the upstream call
AdaptPayload(model, payload) ==
    LET after == AdaptedPayload(model, payload)
        openai_messages == ToOpenaiMessages(after.messages)
        adapted == IF IsO1O3Family(model)
                   THEN [i \in 1..Len(openai_messages) |-> AdaptRole(openai_messages[i])]
                   ELSE openai_messages
    IN  [model |-> <<"o","p","e","n","a","i","/">> \o model,
         messages |-> adapted,
         temperature |-> after.temperature,
         max_tokens |-> after.max_completion_tokens,
         api_base |-> ApiBase,
         api_key |-> ApiKey]

\* no upstream call: the value of kwargs before one is prepared
NoKwargs ==
    [model |-> <<>>, messages |-> <<>>, temperature |-> DefaultTemperature,
     max_tokens |-> DefaultMaxCompletionTokens, api_base |-> ApiBase, api_key |-> ApiKey]

\* requested_model = payload.model or "azure/gpt-5-nano"
RequestedModel(payload) == IF payload.model = <<>> THEN AzureNano ELSE payload.model

(***************************************************************************)
(* The prelude of ChatHandler.chat and of ChatHandler.chat_stream          *)
(***************************************************************************)
\* chat, lines 345-360: the payload the handler goes on with
ChatPayload(payload) ==
    LET original_count == Len(payload.messages)
        truncated_messages == TruncateConversationHistory(payload.messages)
    IN  IF Len(truncated_messages) < original_count
        THEN ChatRequest(truncated_messages, payload.temperature,
                         payload.max_completion_tokens, DefaultModel)
        ELSE payload

\* chat_stream, lines 480-495: the same steps, written out a second time
ChatStreamPayload(payload) ==
    LET original_count == Len(payload.messages)
        truncated_messages == TruncateConversationHistory(payload.messages)
    IN  IF Len(truncated_messages) < original_count
        THEN ChatRequest(truncated_messages, payload.temperature,
                         payload.max_completion_tokens, DefaultModel)
        ELSE payload

\* the request fields, besides the messages, offered to the two endpoints
RequestFields ==
    { [temperature |-> DefaultTemperature,
       max_completion_tokens |-> DefaultMaxCompletionTokens, model |-> DefaultModel],
      [temperature |-> 7, max_completion_tokens |-> 4096, model |-> O1Mini] }

(***************************************************************************)
(* Upstream stream chunks                                                  *)
(*                                                                         *)
(* An attribute (or dict key) is [has, val]: has says whether hasattr /    *)
(* `in` finds it, val is its text, <<>> for None and for "".               *)
(***************************************************************************)
Attr(val) == [has |-> TRUE, val |-> val]
NoAttr == [has |-> FALSE, val |-> <<>>]

\* a chunk as the probes of the handler see it
Chunk(type, choices, delta, fields, finish_reason, value) ==
    [type |-> type,                     \* "object", "str" or "dict"
     choices |-> choices,               \* has a non-empty choices list
     delta |-> delta,                   \* choices[0].delta: attributes, or absent
     reasoning_content |-> fields[1],   \* top-level attributes
     content |-> fields[2],
     text |-> fields[3],
     finish_reason |-> finish_reason,   \* choices[0].finish_reason
     value |-> value]                   \* the text of a str chunk

NoDelta == [present |-> FALSE, reasoning_content |-> NoAttr, content |-> NoAttr, text |-> NoAttr]
Delta(reasoning_content, content, text) ==
    [present |-> TRUE, reasoning_content |-> reasoning_content,
     content |-> content, text |-> text]

\* an OpenAI-format chunk: choices[0].delta with reasoning_content and content
DeltaChunk(reasoning, content, finish_reason) ==
    Chunk("object", TRUE, Delta(Attr(reasoning), Attr(content), NoAttr),
          <<NoAttr, NoAttr, NoAttr>>, finish_reason, <<>>)

\* choices[0].delta carrying .text only
DeltaTextChunk(text) ==
    Chunk("object", TRUE, Delta(NoAttr, NoAttr, Attr(text)),
          <<NoAttr, NoAttr, NoAttr>>, "", <<>>)

\* an object without choices, with the given top-level attributes
PlainChunk(reasoning_content, content, text) ==
    Chunk("object", FALSE, NoDelta, <<reasoning_content, content, text>>, "", <<>>)

StrChunk(value) ==
    Chunk("str", FALSE, NoDelta, <<NoAttr, NoAttr, NoAttr>>, "", value)

\* {"choices": [{"delta": {...}}]}
DictDeltaChunk(reasoning, content) ==
    Chunk("dict", TRUE, Delta(reasoning, content, NoAttr),
          <<NoAttr, NoAttr, NoAttr>>, "", <<>>)

\* {"content": ...}
DictContentChunk(content) ==
    Chunk("dict", FALSE, NoDelta, <<NoAttr, Attr(content), NoAttr>>, "", <<>>)

\* the chunks the upstream sequence may deliver
ChunkPool ==
    { DeltaChunk(<<>>, Lit(<<"H","i">>), ""),
      DeltaChunk(<<>>, Lit(<<" ","t","h","e","r","e",".">>), ""),
      DeltaChunk(<<>>, Rep("y", 29), ""),
      DeltaChunk(<<>>, Rep("z", 1), ""),
      DeltaChunk(Lit(<<"w","h","y">>), <<>>, ""),
      DeltaChunk(Lit(<<"h","m">>), Lit(<<" ","o","k">>), ""),
      DeltaChunk(<<>>, <<>>, "length"),
      DeltaTextChunk(Lit(<<"t","x","t","?">>)),
      PlainChunk(NoAttr, Attr(Lit(<<" ","M","o","r","e">>)), NoAttr),
      PlainChunk(Attr(Lit(<<"r","2">>)), NoAttr, NoAttr),
      StrChunk(Lit(<<"s","\n">>)),
      DictDeltaChunk(NoAttr, Attr(Lit(<<"d","!">>))) }

(***************************************************************************)
(* ChatHandler._extract_content_from_chunk                                 *)
(***************************************************************************)
Truthy(attr) == attr.has /\ attr.val # <<>>

ExtractContentFromChunk(chunk) ==
    LET none == <<>> IN
    IF chunk.type = "object" /\ chunk.choices
    THEN LET delta == chunk.delta IN
         IF delta.present
         THEN [reasoning |-> IF Truthy(delta.reasoning_content)
                             THEN delta.reasoning_content.val ELSE none,
               content |-> IF Truthy(delta.content) THEN delta.content.val
                           ELSE IF Truthy(delta.text) THEN delta.text.val
                           ELSE <<>>]
         ELSE [reasoning |-> none, content |-> <<>>]
    ELSE IF chunk.type = "object" /\ Truthy(chunk.reasoning_content)
    THEN [reasoning |-> chunk.reasoning_content.val, content |-> <<>>]
    ELSE IF chunk.type = "object" /\ chunk.content.has
    THEN [reasoning |-> none, content |-> chunk.content.val]
    ELSE IF chunk.type = "object" /\ chunk.text.has
    THEN [reasoning |-> none, content |-> chunk.text.val]
    ELSE IF chunk.type = "str"
    THEN [reasoning |-> none, content |-> chunk.value]
    ELSE IF chunk.type = "dict"
    THEN IF chunk.choices
         THEN [reasoning |-> chunk.delta.reasoning_content.val,
               content |-> IF chunk.delta.content.val # <<>>
                           THEN chunk.delta.content.val
                           ELSE chunk.delta.text.val]
         ELSE IF chunk.content.has
         THEN [reasoning |-> none, content |-> chunk.content.val]
         ELSE [reasoning |-> none, content |-> <<>>]
    ELSE [reasoning |-> none, content |-> <<>>]

(***************************************************************************)
(* ChatHandler.chat_stream.generate_stream                                 *)
(***************************************************************************)
\* max_buffer_size
max_buffer_size == 30

\* sentence_endings
sentence_endings == {".", "!", "?", "\n"}

\* mutant of ShouldFlush: the sentence endings are not looked at
ShouldFlushOnSizeOnly(buffer_size, content) == buffer_size >= max_buffer_size

\* mutant of ShouldFlush: > in place of >=
ShouldFlushOverThreshold(buffer_size, content) ==
    \/ buffer_size > max_buffer_size
    \/ \E ending \in sentence_endings : EndsWith(content, ending)

\* should_flush, lines 599-605
ShouldFlush(buffer_size, content) ==
    \/ buffer_size >= max_buffer_size
    \/ \E ending \in sentence_endings : EndsWith(content, ending)

\* The events the generator yields.  kind is the yield statement that made the
\* event, data the text after "data: " and before the closing blank line, src
\* the positions of the chunks whose data the event carries.
ThoughtEvent(reasoning, i) ==
    [kind |-> "thought", src |-> {i},
     data |-> Cat(Lit(<<"[","T","H","O","U","G","H","T","]"," ">>), reasoning)]

ContentEvent(buffer, src) == [kind |-> "content", data |-> buffer, src |-> src]

DoneEvent == [kind |-> "done", data |-> Lit(<<"[","D","O","N","E","]">>), src |-> {}]

ErrorEvent(msg) ==
    [kind |-> "error", data |-> Cat(Lit(<<"E","r","r","o","r",":"," ">>), msg), src |-> {}]

\* the locals of the generator before the first chunk, lines 525-534
NewStream ==
    [chunk_count |-> 0, total_chars_sent |-> 0, chunks_received |-> 0,
     empty_chunks |-> 0, chunk_buffer |-> <<>>, buffer_size |-> 0,
     buffer_src |-> {}, out |-> <<>>]

\* mutant of Flush: the buffer is not emptied after the yield
FlushKeepingBuffer(g, buffer, src) ==
    [g EXCEPT !.chunk_count = @ + 1,
              !.total_chars_sent = @ + StrLen(buffer),
              !.out = Append(@, ContentEvent(buffer, src)),
              !.chunk_buffer = buffer,
              !.buffer_size = 0,
              !.buffer_src = src]

\* lines 608-620: the buffer is yielded as one event and emptied
Flush(g, buffer, src) ==
    [g EXCEPT !.chunk_count = @ + 1,
              !.total_chars_sent = @ + StrLen(buffer),
              !.out = Append(@, ContentEvent(buffer, src)),
              !.chunk_buffer = <<>>,
              !.buffer_size = 0,
              !.buffer_src = {}]

\* lines 587-625: the chunk's content joins the buffer, which is flushed or not
BufferContent(g, content, i) ==
    IF content # <<>>
    THEN LET buffer == Cat(g.chunk_buffer, content)
             size == g.buffer_size + StrLen(content)
             src == g.buffer_src \cup {i}
         IN  IF ShouldFlush(size, content) /\ buffer # <<>>
             THEN Flush(g, buffer, src)
             ELSE [g EXCEPT !.chunk_buffer = buffer,
                            !.buffer_size = size,
                            !.buffer_src = src]
    ELSE [g EXCEPT !.empty_chunks = @ + 1]

\* mutant of LoopBody: a thought is counted as a flushed content event
LoopBodyCountingThought(g, chunk, i) ==
    LET got == ExtractContentFromChunk(chunk)
        counted == [g EXCEPT !.chunks_received = @ + 1]
    IN  IF got.reasoning # <<>>
        THEN [counted EXCEPT !.out = Append(@, ThoughtEvent(got.reasoning, i)),
                             !.chunks_received = @ + 1,
                             !.chunk_count = @ + 1]
        ELSE BufferContent(counted, got.content, i)

\* lines 546-625: the body of the loop for the i-th chunk of the sequence;
\* g holds the generator's locals and out, the events yielded so far
LoopBody(g, chunk, i) ==
    LET got == ExtractContentFromChunk(chunk)
        counted == [g EXCEPT !.chunks_received = @ + 1]
    IN  IF got.reasoning # <<>>
        THEN [counted EXCEPT !.out = Append(@, ThoughtEvent(got.reasoning, i)),
                             !.chunks_received = @ + 1]
        ELSE BufferContent(counted, got.content, i)

\* lines 628-632
EarlyTokenLimit(g) ==
    g.chunks_received <= 5 /\ g.chunk_count = 0 /\ g.empty_chunks > 0

\* lines 654-670: the final flush and the completion signal
AfterLoop(g) ==
    LET flushed == IF g.chunk_buffer # <<>>
                   THEN [g EXCEPT !.chunk_count = @ + 1,
                                  !.total_chars_sent = @ + StrLen(g.chunk_buffer),
                                  !.out = Append(@, ContentEvent(g.chunk_buffer,
                                                                 g.buffer_src))]
                   ELSE g
    IN  [flushed EXCEPT !.out = Append(@, DoneEvent)]

\* mutant of OnException: the completion signal is forgotten
OnExceptionNoDone(g, msg) == [g EXCEPT !.out = Append(@, ErrorEvent(msg))]

\* mutant of OnException: the pending buffer is flushed after the error event
OnExceptionFlushing(g, msg) ==
    [g EXCEPT !.out = @ \o <<ErrorEvent(msg)>>
                        \o (IF g.chunk_buffer # <<>>
                            THEN <<ContentEvent(g.chunk_buffer, g.buffer_src)>>
                            ELSE <<>>)
                        \o <<DoneEvent>>]

\* lines 679-688: an exception other than HTTPException
OnException(g, msg) ==
    [g EXCEPT !.out = @ \o <<ErrorEvent(msg), DoneEvent>>]

\* the exceptions the upstream call or sequence may raise: an HTTPException,
\* or any other Exception; str(exc) is the message
ExceptionTypes == {"HTTPException", "Exception"}
ExceptionMessage == Lit(<<"b","o","o","m">>)

\* mutant of ExceptClause: `except BaseException` in place of `except Exception`
ExceptClauseBaseException(type) ==
    IF type = "HTTPException" THEN "reraise" ELSE "handle"

\* lines 672-688: the except clause that takes an exception raised in the try
\* block; "none" when neither matches and it leaves the generator
ExceptClause(type) ==
    CASE type = "HTTPException" -> "reraise"
      [] type = "Exception" -> "handle"
      [] OTHER -> "none"

(***************************************************************************)
(* The result of `await litellm.acompletion(...)` on the non-streaming     *)
(* path, as ChatHandler.chat probes it: an attribute is absent, or present *)
(* and None, or present with a text.                                       *)
(***************************************************************************)
Absent == [has |-> FALSE, null |-> FALSE, val |-> <<>>]
None == [has |-> TRUE, null |-> TRUE, val |-> <<>>]
Text(val) == [has |-> TRUE, null |-> FALSE, val |-> val]

\* `not x` for a value that is None or a str
Falsy(x) == x.null \/ x.val = <<>>

\* str(x) for a value that is None or a str
Str(x) == IF x.null THEN Lit(<<"N","o","n","e">>) ELSE x.val

\* the characters str.strip() removes
Whitespace == {" ", "\n", "\t"}

RECURSIVE LStrip(_)
LStrip(s) == IF s # <<>> /\ s[1].c \in Whitespace THEN LStrip(Tail(s)) ELSE s

RECURSIVE RStrip(_)
RStrip(s) ==
    IF s # <<>> /\ s[Len(s)].c \in Whitespace
    THEN RStrip(SubSeq(s, 1, Len(s) - 1)) ELSE s

\* mutant of Strip: only the leading whitespace is removed
StripLeftOnly(s) == LStrip(s)

\* s.strip()
Strip(s) == RStrip(LStrip(s))

\* response.choices[0].message
Message(content, text, reasoning_content) ==
    [has |-> TRUE, content |-> content, text |-> text, reasoning_content |-> reasoning_content]

\* response.choices[0]; message is NoMessage when the choice has no .message
NoMessage == [has |-> FALSE, content |-> Absent, text |-> Absent,
              reasoning_content |-> Absent]
Choice(message, text, finish_reason) ==
    [message |-> message, text |-> text, finish_reason |-> finish_reason]
NoChoice == Choice(NoMessage, Absent, "absent")

\* response.usage: absent, or an object whose completion_tokens and
\* output_token_details are absent, None or set
NoUsage == [has |-> FALSE, completion_tokens |-> "absent",
            output_token_details |-> "absent", reasoning |-> 0]
Usage(completion_tokens, output_token_details, reasoning) ==
    [has |-> TRUE, completion_tokens |-> completion_tokens,
     output_token_details |-> output_token_details, reasoning |-> reasoning]

\* the upstream result; choices is "absent", "empty" or "one"
Response(choices, choice, content, reasoning_content, usage, model) ==
    [choices |-> choices, choice |-> choice, content |-> content,
     reasoning_content |-> reasoning_content, usage |-> usage, model |-> model]

NoResponse == Response("absent", NoChoice, Absent, Absent, NoUsage, Absent)

(***************************************************************************)
(* ChatHandler.chat after the upstream call                                *)
(***************************************************************************)
\* `x.strip() if x else ""`
StripOrEmpty(x) == IF Falsy(x) THEN <<>> ELSE Strip(x.val)

\* lines 381-400: reply and reasoning probed from the response
ExtractReply(response) ==
    LET choice == response.choice
        message == choice.message
        reply == IF response.choices = "one"
                 THEN IF message.has
                      THEN IF message.content.has THEN StripOrEmpty(message.content)
                           ELSE IF message.text.has THEN StripOrEmpty(message.text)
                           ELSE <<>>
                      ELSE IF choice.text.has THEN StripOrEmpty(choice.text)
                      ELSE <<>>
                 ELSE <<>>
        reasoning == IF /\ response.choices = "one"
                        /\ message.has
                        /\ message.reasoning_content.has
                     THEN message.reasoning_content
                     ELSE None
    IN  [reply |-> IF reply = <<>> /\ response.content.has
                   THEN Strip(Str(response.content))
                   ELSE reply,
         reasoning |-> IF Falsy(reasoning) /\ response.reasoning_content.has
                       THEN response.reasoning_content
                       ELSE reasoning]

\* _extract_response_metadata; finish_reason "null" is None, and
\* usage_metadata is the empty dict when has is FALSE
ExtractResponseMetadata(response) ==
    [finish_reason |->
        IF response.choices = "one" /\ response.choice.finish_reason # "absent"
        THEN response.choice.finish_reason
        ELSE "null",
     usage_metadata |->
        IF response.usage.has
        THEN [has |-> TRUE,
              completion_tokens |->
                  IF response.usage.completion_tokens = "absent"
                  THEN "zero" ELSE response.usage.completion_tokens,
              output_token_details |->
                  IF response.usage.output_token_details = "absent"
                  THEN "dict" ELSE response.usage.output_token_details,
              reasoning |->
                  IF response.usage.output_token_details = "dict"
                  THEN response.usage.reasoning ELSE 0]
        ELSE [has |-> FALSE, completion_tokens |-> "zero",
              output_token_details |-> "dict", reasoning |-> 0]]

\* what the endpoint answers: the status, how it came about ("returned", an
\* HTTPException raised by the handler, or an exception that leaves the
\* handler uncaught and is answered by the framework), and what it carries
Outcome(status, how, reply, reasoning, model, max_tokens, reasoning_tokens) ==
    [status |-> status, how |-> how, reply |-> reply, reasoning |-> reasoning,
     model |-> model, max_tokens |-> max_tokens,
     reasoning_tokens |-> reasoning_tokens]

NoOutcome == Outcome(0, "none", <<>>, None, Absent, 0, 0)

\* raise HTTPException(status_code=status, ...)
HttpError(status, how) == Outcome(status, how, <<>>, None, Absent, 0, 0)

\* an exception no clause of the handler catches
Uncaught(type) == Outcome(500, type, <<>>, None, Absent, 0, 0)

\* lines 417-459: the empty response
EmptyResponse(response, payload) ==
    LET metadata == ExtractResponseMetadata(response)
        usage_metadata == metadata.usage_metadata
    IN  IF metadata.finish_reason = "length"
        THEN IF usage_metadata.output_token_details = "null"
             THEN \* None.get("reasoning", 0), lines 444-446
                  Uncaught("AttributeError")
             ELSE Outcome(400, "truncated", <<>>, None, Absent,
                          payload.max_completion_tokens,
                          usage_metadata.reasoning)
        ELSE HttpError(502, "empty")

\* lines 376-475: the response is probed and answered
ChatOutcome(response, payload) ==
    LET got == ExtractReply(response)
        metadata == ExtractResponseMetadata(response)
    IN  IF /\ got.reply = <<>>
           /\ metadata.usage_metadata.has
           /\ metadata.usage_metadata.completion_tokens = "null"
        THEN \* `None > 0` at line 410, caught at line 419
             HttpError(500, "failed")
        ELSE IF got.reply = <<>> /\ Falsy(got.reasoning)
        THEN EmptyResponse(response, payload)
        ELSE IF response.model.has /\ response.model.null
        THEN \* ChatResponse(model=None), line 475
             Uncaught("ValidationError")
        ELSE Outcome(200, "returned", got.reply, got.reasoning,
                     IF response.model.has THEN response.model
                     ELSE Text(Lit(<<"u","n","k","n","o","w","n">>)),
                     0, 0)

\* the status of an HTTPException the upstream call may raise
UpstreamStatus == 429

\* lines 416-426: the upstream call raises
ChatFailure(type) ==
    IF type = "HTTPException"
    THEN \* raised again as it is, with the status it carries
         HttpError(UpstreamStatus, "reraised")
    ELSE HttpError(500, "failed")

\* the texts a probed attribute may hold: absent, None, empty, or a text
\* with blanks around it
Padded(ch) == Cat(Rep(" ", 1), Cat(Rep(ch, 1), Rep(" ", 1)))

\* the upstream results offered to ChatHandler.chat
Usages ==
    { NoUsage,
      Usage("positive", "absent", 0),
      Usage("zero", "null", 0),
      Usage("absent", "dict", 0),
      Usage("positive", "dict", 5),
      Usage("null", "absent", 0) }

Choices ==
    { Choice(Message(c, t, r), x, f) :
        c \in {Absent, None, Text(<<>>), Text(Padded("a"))},
        t \in {Absent, Text(<<>>), Text(Rep("t", 1))},
        r \in {Absent, None, Text(Rep("r", 1))},
        x \in {Absent, Text(Rep("c", 1))},
        f \in {"absent", "null", "stop", "length"} }
    \cup
    { Choice(NoMessage, x, f) :
        x \in {Absent, None, Text(Rep(" ", 2)), Text(Rep("c", 1))},
        f \in {"absent", "null", "stop", "length"} }

ResponsePool ==
    { Response("one", ch, c, r, u, m) :
        ch \in Choices,
        c \in {Absent, None, Text(Padded("p"))},
        r \in {Absent, Text(Rep("R", 1))},
        u \in Usages,
        m \in {Absent, None, Text(Rep("m", 1))} }
    \cup
    { Response(k, NoChoice, c, r, u, m) :
        k \in {"absent", "empty"},
        c \in {Absent, None, Text(<<>>), Text(Padded("p"))},
        r \in {Absent, None, Text(Rep("R", 1))},
        u \in Usages,
        m \in {Absent, None, Text(Rep("m", 1))} }

(***************************************************************************)
(* ChatHandler.get_models                                                  *)
(***************************************************************************)
ModelInfo(name, full_name, provider, supports_thinking) ==
    [name |-> name, full_name |-> full_name, provider |-> provider,
     supports_thinking |-> supports_thinking]

LowerCase == <<"a","b","c","d","e","f","g","h","i","j","k","l","m",
               "n","o","p","q","r","s","t","u","v","w","x","y","z">>
UpperCase == <<"A","B","C","D","E","F","G","H","I","J","K","L","M",
               "N","O","P","Q","R","S","T","U","V","W","X","Y","Z">>

\* one character of str.lower() and of str.upper()
LowerChar(c) ==
    IF \E i \in 1..26 : UpperCase[i] = c
    THEN LowerCase[CHOOSE i \in 1..26 : UpperCase[i] = c] ELSE c
UpperChar(c) ==
    IF \E i \in 1..26 : LowerCase[i] = c
    THEN UpperCase[CHOOSE i \in 1..26 : LowerCase[i] = c] ELSE c

\* s.lower()
Lower(s) == [i \in 1..Len(s) |-> LowerChar(s[i])]

\* s.capitalize()
Capitalize(s) ==
    [i \in 1..Len(s) |-> IF i = 1 THEN UpperChar(s[i]) ELSE LowerChar(s[i])]

\* s.split("/")[0]
BeforeSlash(s) ==
    IF \E i \in 1..Len(s) : s[i] = "/"
    THEN SubSeq(s, 1, (CHOOSE i \in 1..Len(s) :
                          s[i] = "/" /\ \A j \in 1..(i - 1) : s[j] # "/") - 1)
    ELSE s

\* provider_map, lines 235-241
provider_map ==
    { <<<<"a","z","u","r","e">>,
        <<"A","z","u","r","e"," ","O","p","e","n","A","I"," ","(","G","P","T",")">>>>,
      <<<<"g","e","m","i","n","i">>,
        <<"G","o","o","g","l","e"," ","G","e","m","i","n","i">>>>,
      <<<<"o","p","e","n","a","i">>, <<"O","p","e","n","A","I">>>>,
      <<<<"a","n","t","h","r","o","p","i","c">>,
        <<"A","n","t","h","r","o","p","i","c"," ","C","l","a","u","d","e">>>>,
      <<<<"v","e","r","t","e","x","_","a","i">>,
        <<"G","o","o","g","l","e"," ","V","e","r","t","e","x"," ","A","I">>>> }

\* lines 230-242: the provider shown for a model string
Provider(model_str) ==
    IF \E i \in 1..Len(model_str) : model_str[i] = "/"
    THEN LET raw_provider == Lower(BeforeSlash(model_str)) IN
         IF \E kv \in provider_map : kv[1] = raw_provider
         THEN (CHOOSE kv \in provider_map : kv[1] = raw_provider)[2]
         ELSE Capitalize(raw_provider)
    ELSE <<"u","n","k","n","o","w","n">>

\* one entry of model_list: model_name is "" when the key is missing or
\* empty; litellm_params is "dict" or, written `litellm_params:` with
\* nothing after it, "null"
Entry(model_name, litellm_params, model, supports_thinking) ==
    [model_name |-> model_name, litellm_params |-> litellm_params,
     model |-> model, supports_thinking |-> supports_thinking]

\* the configuration file: whether os.path.exists finds it, whether open()
\* succeeds, what yaml.safe_load makes of it ("mapping", "null" for an
\* empty document, "invalid" when it raises), and its model_list ("absent",
\* "null" or "list") with the entries of the list
Config(exists, readable, document, model_list, entries) ==
    [exists |-> exists, readable |-> readable, document |-> document,
     model_list |-> model_list, entries |-> entries]

\* lines 257-261: the built-in list
FallbackModels ==
    << ModelInfo(AzureNano, AzureNano,
                 <<"A","z","u","r","e"," ","O","p","e","n","A","I"," ","(","G","P","T",")">>,
                 FALSE),
       ModelInfo(<<"g","e","m","i","n","i","/","g","e","m","i","n","i","-","3","-",
                   "f","l","a","s","h","-","p","r","e","v","i","e","w">>,
                 <<"g","e","m","i","n","i","/","g","e","m","i","n","i","-","3","-",
                   "f","l","a","s","h","-","p","r","e","v","i","e","w">>,
                 <<"G","o","o","g","l","e"," ","G","e","m","i","n","i">>, FALSE) >>

\* lines 263-265: the descriptor that carries the error
SentinelModels(e) ==
    << ModelInfo(<<"e","r","r","o","r">>, <<"e","r","r","o","r">>, e, FALSE) >>

\* str(e) of the exceptions the loading may raise, shortened
NoError == <<>>
PermissionError == <<"d","e","n","i","e","d">>
YAMLError == <<"y","a","m","l">>
AttributeError == <<"n","o"," ","g","e","t">>
TypeError == <<"n","o"," ","i","t","e","r">>

\* mutant of Listed: the last occurrence of an alias replaces the first
RECURSIVE ListedLastWins(_, _)
ListedLastWins(entries, model_infos) ==
    IF entries = <<>> THEN [error |-> NoError, model_infos |-> model_infos]
    ELSE LET m == entries[1]
             info == ModelInfo(m.model_name, m.model, Provider(m.model),
                               m.supports_thinking)
         IN  IF m.model_name = <<>> THEN ListedLastWins(Tail(entries), model_infos)
             ELSE IF m.litellm_params = "null"
             THEN [error |-> AttributeError, model_infos |-> model_infos]
             ELSE IF \E i \in 1..Len(model_infos) : model_infos[i].name = m.model_name
             THEN ListedLastWins(Tail(entries),
                      [i \in 1..Len(model_infos) |->
                          IF model_infos[i].name = m.model_name
                          THEN info ELSE model_infos[i]])
             ELSE ListedLastWins(Tail(entries), Append(model_infos, info))

\* lines 224-254: the loop over model_list; seen_names is the set of the
\* names of model_infos.  error names the exception that ended the loop.
RECURSIVE Listed(_, _)
Listed(entries, model_infos) ==
    IF entries = <<>> THEN [error |-> NoError, model_infos |-> model_infos]
    ELSE LET m == entries[1]
             name == m.model_name
             seen_names == { model_infos[i].name : i \in 1..Len(model_infos) }
         IN  IF name # <<>> /\ name \notin seen_names
             THEN IF m.litellm_params = "null"
                  THEN \* None.get("model", ""), line 229
                       [error |-> AttributeError, model_infos |-> model_infos]
                  ELSE Listed(Tail(entries),
                              Append(model_infos,
                                     ModelInfo(name, m.model, Provider(m.model),
                                               m.supports_thinking)))
             ELSE Listed(Tail(entries), model_infos)

\* get_models: the models of the ModelListResponse returned
GetModels(config) ==
    IF ~config.exists THEN FallbackModels
    ELSE IF ~config.readable THEN SentinelModels(PermissionError)
    ELSE IF config.document = "invalid" THEN SentinelModels(YAMLError)
    ELSE IF config.document = "null" THEN SentinelModels(AttributeError)
    ELSE IF config.model_list = "absent" THEN FallbackModels
    ELSE IF config.model_list = "null" THEN SentinelModels(TypeError)
    ELSE LET listed == Listed(config.entries, <<>>) IN
         IF listed.error # NoError THEN SentinelModels(listed.error)
         ELSE IF listed.model_infos = <<>> THEN FallbackModels
         ELSE listed.model_infos

\* the entries a model_list may hold
Aliases == { <<>>, <<"s","m","a","r","t">>, <<"f","a","s","t">> }
ModelStrings ==
    { <<"a","z","u","r","e","/","x">>, <<"x","A","I","/","g">>, <<"p","l","a","i","n">> }
EntryPool ==
    { Entry(n, "dict", m, t) : n \in Aliases, m \in ModelStrings, t \in BOOLEAN }
    \cup { Entry(n, "null", <<>>, FALSE) : n \in Aliases }

\* the configuration files offered, before the entries of model_list
ConfigFiles ==
    { Config(FALSE, FALSE, "null", "absent", <<>>),
      Config(TRUE, FALSE, "null", "absent", <<>>),
      Config(TRUE, TRUE, "invalid", "absent", <<>>),
      Config(TRUE, TRUE, "null", "absent", <<>>),
      Config(TRUE, TRUE, "mapping", "absent", <<>>),
      Config(TRUE, TRUE, "mapping", "null", <<>>),
      Config(TRUE, TRUE, "mapping", "list", <<>>) }

(***************************************************************************)
(* Several requests to chat_stream on the one ChatHandler of the           *)
(* application: each call builds its own payload and its own generator.    *)
(***************************************************************************)
\* the requests in flight
Requests == 1..NumStreams

\* the chunks the upstream sequences deliver to them: one that stays in the
\* buffer and one that flushes it
ConcChunkPool ==
    { DeltaChunk(<<>>, Lit(<<"H","i">>), ""),
      DeltaChunk(<<>>, Lit(<<" ","t","h","e","r","e",".">>), "") }

\* the request fields of request r: the two profiles in turn
FieldsOf(r) ==
    IF r % 2 = 1
    THEN [temperature |-> DefaultTemperature,
          max_completion_tokens |-> DefaultMaxCompletionTokens, model |-> DefaultModel]
    ELSE [temperature |-> 7, max_completion_tokens |-> 4096, model |-> O1Mini]

\* the conversation of request r
ConversationOf(r) == <<ChatMessage("user", ContentOf(r, 2))>>

\* one call of chat_stream: its payload, the arguments of its upstream call
\* and the locals of its generate_stream
Stream(pos, req, p, kw, g, chunks) ==
    [pc |-> pos, request |-> req, payload |-> p, kwargs |-> kw, gen |-> g,
     received |-> chunks]

NoStream == Stream("new", NoRequest, NoRequest, NoKwargs, NewStream, <<>>)

\* lines 480-543: the call up to the upstream call of its generator
StartStream(ss, r) ==
    LET req == ChatRequest(ConversationOf(r), FieldsOf(r).temperature,
                           FieldsOf(r).max_completion_tokens, FieldsOf(r).model)
        p == ChatStreamPayload(req)
    IN  [ss EXCEPT ![r] = Stream("streaming", req,
                                 AdaptedPayload(RequestedModel(p), p),
                                 AdaptPayload(RequestedModel(p), p),
                                 NewStream, <<>>)]

\* mutant of StepStream: the buffer is kept on the handler, so that a
\* generator goes on with what the last generator left in it
StepStreamSharedBuffer(ss, r, chunk) ==
    LET last == CHOOSE o \in Requests : o # r IN
    [ss EXCEPT ![r].gen = LoopBody([@ EXCEPT
                                       !.chunk_buffer = ss[last].gen.chunk_buffer,
                                       !.buffer_size = ss[last].gen.buffer_size],
                                   chunk, Len(ss[r].received) + 1),
               ![r].received = Append(@, chunk)]

\* lines 545-625: the generator of request r takes one chunk
StepStream(ss, r, chunk) ==
    [ss EXCEPT ![r].gen = LoopBody(@, chunk, Len(ss[r].received) + 1),
               ![r].received = Append(@, chunk)]

\* lines 627-670: the upstream sequence of request r ends
EndStream(ss, r) ==
    [ss EXCEPT ![r].gen = AfterLoop(@), ![r].pc = "done"]

\* lines 672-688: the upstream sequence of request r raises
FailStream(ss, r, type) ==
    IF type = "HTTPException"
    THEN [ss EXCEPT ![r].pc = "raised"]
    ELSE [ss EXCEPT ![r].gen = OnException(@, ExceptionMessage),
                    ![r].pc = "errored"]

(***************************************************************************)
(* State                                                                   *)
(***************************************************************************)
VARIABLES
    pc,         \* position of the operation under way
    messages,   \* the conversation given to the operation
    result,     \* what _truncate_conversation_history returned
    path,       \* the endpoint serving the request: "chat" or "chat_stream"
    request,    \* the ChatRequest as the caller sent it
    payload,    \* the handler's payload object, as it is now
    kwargs,     \* completion_kwargs, the arguments of the upstream call
    gen,        \* generate_stream: its locals and, in out, the events yielded
    received,   \* the chunks the generator has taken from the upstream sequence
    early_token_limit,  \* the diagnostic computed after the loop
    response,   \* what `await litellm.acompletion(...)` returned to chat
    outcome,    \* what the endpoint answered
    config,     \* the configuration file get_models reads
    model_infos, \* the models get_models returned
    streams     \* the calls of chat_stream in flight on the handler

vars == <<pc, messages, result, path, request, payload, kwargs,
          gen, received, early_token_limit, response, outcome,
          config, model_infos, streams>>

requestVars == <<path, request, payload, kwargs>>
streamVars == <<gen, received, early_token_limit>>
replyVars == <<response, outcome>>
catalogVars == <<config, model_infos>>
concVars == <<streams>>

\* no request under way
NoRequestYet ==
    /\ path = "none"
    /\ request = NoRequest
    /\ payload = NoRequest
    /\ kwargs = NoKwargs

\* no stream under way
NoStreamYet ==
    /\ gen = NewStream
    /\ received = <<>>
    /\ early_token_limit = FALSE

\* no upstream result yet
NoReplyYet ==
    /\ response = NoResponse
    /\ outcome = NoOutcome

\* get_models not called
NoCatalogYet ==
    /\ config = Config(FALSE, FALSE, "null", "absent", <<>>)
    /\ model_infos = <<>>

\* no concurrent call yet
NoStreamsYet == streams = [r \in Requests |-> NoStream]

(***************************************************************************)
(* Truncation as a pure function: any conversation, then one call.         *)
(***************************************************************************)
InitTrunc ==
    /\ pc = "input"
    /\ messages = <<>>
    /\ result = <<>>
    /\ NoRequestYet
    /\ NoStreamYet
    /\ NoReplyYet
    /\ NoCatalogYet
    /\ NoStreamsYet

\* one more ChatMessage of the list handed to the function
AddMessage(role, len) ==
    /\ pc = "input"
    /\ Len(messages) < MaxMsgs
    /\ len > _max_message_length => NumLong(messages) < MaxLong
    /\ messages' = Append(messages, ChatMessage(role, ContentOf(Len(messages) + 1, len)))
    /\ UNCHANGED <<pc, result, requestVars, streamVars, replyVars, catalogVars, concVars>>

Truncate ==
    /\ pc = "input"
    /\ result' = TruncateConversationHistory(messages)
    /\ pc' = "returned"
    /\ UNCHANGED <<messages, requestVars, streamVars, replyVars, catalogVars, concVars>>

NextTrunc ==
    \/ \E role \in Roles, len \in Lengths : AddMessage(role, len)
    \/ Truncate

SpecTrunc == InitTrunc /\ [][NextTrunc]_vars

(***************************************************************************)
(* _adapt_payload as a function of a model identifier and a valid          *)
(* ChatRequest.                                                            *)
(***************************************************************************)
\* the conversations of the payloads offered: every role sequence of up to
\* MaxAdaptMsgs messages that passes validate_messages
AdaptConversations ==
    { msgs \in UNION { { [i \in 1..n |-> ChatMessage(r[i], ContentOf(i, 2))] :
                           r \in [1..n -> Roles] } : n \in 1..MaxAdaptMsgs } :
        ValidateMessages(msgs) }

InitAdapt ==
    /\ pc = "input"
    /\ messages = <<>>
    /\ result = <<>>
    /\ path = "none"
    /\ request \in { ChatRequest(msgs, 7, c, m) :
                       msgs \in AdaptConversations, c \in TokenCeilings, m \in ModelIds }
    /\ payload = request
    /\ kwargs = NoKwargs
    /\ NoStreamYet
    /\ NoReplyYet
    /\ NoCatalogYet
    /\ NoStreamsYet

Adapt ==
    /\ pc = "input"
    /\ kwargs' = AdaptPayload(request.model, payload)
    /\ payload' = AdaptedPayload(request.model, payload)
    /\ pc' = "adapted"
    /\ UNCHANGED <<messages, result, path, request, streamVars, replyVars, catalogVars, concVars>>

NextAdapt == Adapt

SpecAdapt == InitAdapt /\ [][NextAdapt]_vars

(***************************************************************************)
(* The two endpoints, from the request to the upstream call.               *)
(***************************************************************************)
InitChat == InitTrunc

\* POST /chat: the body is parsed into a ChatRequest (validate_messages runs),
\* then ChatHandler.chat runs up to `await litellm.acompletion(...)`.
Chat(f) ==
    LET req == ChatRequest(messages, f.temperature, f.max_completion_tokens, f.model)
        p == ChatPayload(req)
    IN  /\ pc = "input"
        /\ path' = "chat"
        /\ request' = req
        /\ IF ~ValidateMessages(messages)
           THEN \* rejected at ingress, the handler never runs
                /\ pc' = "rejected"
                /\ UNCHANGED <<payload, kwargs>>
           ELSE IF ~ValidateMessages(p.messages)
           THEN \* ChatRequest(...) at line 356 raises
                /\ pc' = "failed"
                /\ UNCHANGED <<payload, kwargs>>
           ELSE /\ kwargs' = AdaptPayload(RequestedModel(p), p)
                /\ payload' = AdaptedPayload(RequestedModel(p), p)
                /\ pc' = "called"
        /\ UNCHANGED <<messages, result, streamVars, replyVars, catalogVars, concVars>>

\* POST /chat/stream: the same with chat_stream, whose generator
\* generate_stream prepares the call when the response starts.
ChatStream(f) ==
    LET req == ChatRequest(messages, f.temperature, f.max_completion_tokens, f.model)
        p == ChatStreamPayload(req)
    IN  /\ pc = "input"
        /\ path' = "chat_stream"
        /\ request' = req
        /\ IF ~ValidateMessages(messages)
           THEN \* rejected at ingress, the handler never runs
                /\ pc' = "rejected"
                /\ UNCHANGED <<payload, kwargs>>
           ELSE IF ~ValidateMessages(p.messages)
           THEN \* ChatRequest(...) at line 491 raises
                /\ pc' = "failed"
                /\ UNCHANGED <<payload, kwargs>>
           ELSE /\ kwargs' = AdaptPayload(RequestedModel(p), p)
                /\ payload' = AdaptedPayload(RequestedModel(p), p)
                /\ pc' = "called"
        /\ UNCHANGED <<messages, result, streamVars, replyVars, catalogVars, concVars>>

NextChat ==
    \/ \E role \in Roles, len \in Lengths : AddMessage(role, len)
    \/ \E f \in RequestFields : Chat(f)
    \/ \E f \in RequestFields : ChatStream(f)

SpecChat == InitChat /\ [][NextChat]_vars

(***************************************************************************)
(* ChatHandler.chat, from the upstream call to the answer.                 *)
(***************************************************************************)
\* a valid request has reached `await litellm.acompletion(...)`
InitReply ==
    /\ pc = "called"
    /\ messages = <<ChatMessage("user", ContentOf(1, 2))>>
    /\ result = <<>>
    /\ path = "chat"
    /\ request \in { ChatRequest(messages, f.temperature, f.max_completion_tokens,
                                  f.model) : f \in RequestFields }
    /\ payload = AdaptedPayload(RequestedModel(ChatPayload(request)),
                                ChatPayload(request))
    /\ kwargs = AdaptPayload(RequestedModel(ChatPayload(request)),
                             ChatPayload(request))
    /\ NoStreamYet
    /\ NoReplyYet
    /\ NoCatalogYet
    /\ NoStreamsYet

\* the upstream call returns r: lines 376-475
Respond(r) ==
    /\ pc = "called"
    /\ response' = r
    /\ outcome' = ChatOutcome(r, payload)
    /\ pc' = "answered"
    /\ UNCHANGED <<messages, result, requestVars, streamVars, catalogVars, concVars>>

\* the upstream call raises: lines 416-426
Fail(type) ==
    /\ pc = "called"
    /\ outcome' = ChatFailure(type)
    /\ pc' = "call_failed"
    /\ UNCHANGED <<messages, result, requestVars, streamVars, response, catalogVars, concVars>>

NextReply ==
    /\ pc = "called"
    /\ \/ \E r \in ResponsePool : Respond(r)
       \/ \E type \in ExceptionTypes : Fail(type)

SpecReply == InitReply /\ [][NextReply]_vars

(***************************************************************************)
(* get_models on any configuration file.                                   *)
(***************************************************************************)
InitModels ==
    /\ pc = "input"
    /\ messages = <<>>
    /\ result = <<>>
    /\ NoRequestYet
    /\ NoStreamYet
    /\ NoReplyYet
    /\ config \in ConfigFiles
    /\ model_infos = <<>>
    /\ NoStreamsYet

\* one more entry in the model_list of the file
AddEntry(m) ==
    /\ pc = "input"
    /\ config.model_list = "list"
    /\ Len(config.entries) < MaxEntries
    /\ config' = [config EXCEPT !.entries = Append(@, m)]
    /\ UNCHANGED <<pc, messages, result, requestVars, streamVars, replyVars,
                   model_infos, concVars>>

\* GET /models
ListModels ==
    /\ pc = "input"
    /\ model_infos' = GetModels(config)
    /\ pc' = "returned"
    /\ UNCHANGED <<messages, result, requestVars, streamVars, replyVars, config, concVars>>

NextModels ==
    \/ \E m \in EntryPool : AddEntry(m)
    \/ ListModels

SpecModels == InitModels /\ [][NextModels]_vars

(***************************************************************************)
(* Concurrent streams, interleaved where a generator waits for its next    *)
(* chunk.                                                                  *)
(***************************************************************************)
InitConc ==
    /\ pc = "serving"
    /\ messages = <<>>
    /\ result = <<>>
    /\ NoRequestYet
    /\ NoStreamYet
    /\ NoReplyYet
    /\ NoCatalogYet
    /\ NoStreamsYet

concFrame == <<pc, messages, result, requestVars, streamVars, replyVars, catalogVars>>

\* POST /chat/stream for request r
Start(r) ==
    /\ streams[r].pc = "new"
    /\ streams' = StartStream(streams, r)
    /\ UNCHANGED concFrame

\* the upstream sequence of request r delivers a chunk
Deliver(r, chunk) ==
    /\ streams[r].pc = "streaming"
    /\ Len(streams[r].received) < MaxConcChunks
    /\ streams' = StepStream(streams, r, chunk)
    /\ UNCHANGED concFrame

\* the upstream sequence of request r ends
Exhaust(r) ==
    /\ streams[r].pc = "streaming"
    /\ streams' = EndStream(streams, r)
    /\ UNCHANGED concFrame

\* the upstream sequence of request r raises
Break(r, type) ==
    /\ streams[r].pc = "streaming"
    /\ streams' = FailStream(streams, r, type)
    /\ UNCHANGED concFrame

NextConc ==
    \E r \in Requests :
        \/ Start(r)
        \/ \E chunk \in ConcChunkPool : Deliver(r, chunk)
        \/ Exhaust(r)
        \/ \E type \in ExceptionTypes : Break(r, type)

SpecConc == InitConc /\ [][NextConc]_vars

(***************************************************************************)
(* generate_stream, from its first statement to the end of the stream.     *)
(***************************************************************************)
InitStream ==
    /\ pc = "streaming"
    /\ messages = <<>>
    /\ result = <<>>
    /\ NoRequestYet
    /\ NoStreamYet
    /\ NoReplyYet
    /\ NoCatalogYet
    /\ NoStreamsYet

\* the upstream sequence delivers one more chunk: one turn of the loop
NextChunk(chunk) ==
    /\ pc = "streaming"
    /\ Len(received) < MaxChunks
    /\ gen' = LoopBody(gen, chunk, Len(received) + 1)
    /\ received' = Append(received, chunk)
    /\ UNCHANGED <<pc, messages, result, requestVars, early_token_limit, replyVars, catalogVars, concVars>>

\* the upstream sequence ends: the code after the loop
StopIteration ==
    /\ pc = "streaming"
    /\ early_token_limit' = EarlyTokenLimit(gen)
    /\ gen' = AfterLoop(gen)
    /\ pc' = "done"
    /\ UNCHANGED <<messages, result, requestVars, received, replyVars, catalogVars, concVars>>

\* litellm.acompletion or the upstream sequence raises: the except clauses
Raise(type) ==
    /\ pc = "streaming"
    /\ IF type = "HTTPException"
       THEN \* lines 672-678: logged and raised again, nothing is yielded
            /\ pc' = "raised"
            /\ UNCHANGED gen
       ELSE /\ gen' = OnException(gen, ExceptionMessage)
            /\ pc' = "errored"
    /\ UNCHANGED <<messages, result, requestVars, received, early_token_limit, replyVars, catalogVars, concVars>>

\* the caller disconnects while the generator is suspended in the loop:
\* GeneratorExit is thrown into it at a yield (the generator is closed) or
\* CancelledError at the await for the next chunk (the task is cancelled).
\* Both derive from BaseException, not from Exception: the exception passes
\* the except clauses and the generator is finished, nothing more being
\* pulled from the upstream sequence
Close(type) ==
    /\ pc = "streaming"
    /\ gen' = IF ExceptClause(type) = "handle"
              THEN OnException(gen, ExceptionMessage)
              ELSE gen
    /\ pc' = "closed"
    /\ UNCHANGED <<messages, result, requestVars, received, early_token_limit, replyVars, catalogVars, concVars>>

NextStream ==
    \/ \E chunk \in ChunkPool : NextChunk(chunk)
    \/ StopIteration
    \/ \E type \in ExceptionTypes : Raise(type)
    \/ \E type \in {"GeneratorExit", "CancelledError"} : Close(type)

SpecStream == InitStream /\ [][NextStream]_vars

(***************************************************************************)
(* Claims about _truncate_conversation_history                             *)
(***************************************************************************)
\* what identifies a message of the input: its role and its opening character
Key(msg) == <<msg.role, msg.content[1].c>>

KeysOf(msgs) == [i \in 1..Len(msgs) |-> Key(msgs[i])]

NumSystem(msgs) == Cardinality({i \in 1..Len(msgs) : msgs[i].role = "system"})
NumNonSystem(msgs) == Len(msgs) - NumSystem(msgs)

\* positions of the system / non-system messages, in ascending order
RECURSIVE Positions(_, _, _)
Positions(msgs, i, sys) ==
    IF i > Len(msgs) THEN <<>>
    ELSE (IF (msgs[i].role = "system") = sys THEN <<i>> ELSE <<>>)
           \o Positions(msgs, i + 1, sys)

\* the positions the long branch is said to retain: every system message, then
\* the last six non-system messages
RetainedPositions(msgs) ==
    LET sys == Positions(msgs, 1, TRUE)
        non == Positions(msgs, 1, FALSE)
        keep == IF Len(non) <= 6 THEN non ELSE SubSeq(non, Len(non) - 5, Len(non))
    IN  sys \o keep

\* the content the spec promises for a retained message
Clipped(content) ==
    IF StrLen(content) > 1500 THEN Cat(Take(content, 1500), Rep(".", 3)) ELSE content

\* C6: for every conversation with more than 6 non-system messages the result
\* is all system messages of the input in their original order, followed by
\* the last 6 non-system messages of the input in their original order.
C6_LongSelection ==
    (pc = "returned" /\ NumNonSystem(messages) > 6) =>
        LET keep == RetainedPositions(messages) IN
        /\ Len(result) = NumSystem(messages) + 6
        /\ KeysOf(result) = [k \in 1..Len(keep) |-> Key(messages[keep[k]])]

\* C6 witness: seven non-system messages with a system message between them.
C6_Witness ==
    /\ pc = "returned"
    /\ NumNonSystem(messages) > 6
    /\ \E i \in 2..Len(messages) : messages[i].role = "system"
    /\ Len(result) < Len(messages)

\* C7 as stated: at most 6 non-system messages, none over 1500 characters:
\* the result is the input, pair by pair.
C7_ShortIdentity ==
    (pc = "returned" /\ NumNonSystem(messages) <= 6 /\ NumLong(messages) = 0) =>
        result = messages

\* C7 amended: under the same precondition the result is the input itself when
\* the conversation has at most 6 messages in all; with more than 6 messages
\* it holds the same messages, system messages first and each group in its
\* original order (so it is the input when no system message follows a
\* non-system one).
SystemFirst(msgs) ==
    \A i, j \in 1..Len(msgs) :
        (i < j /\ msgs[j].role = "system") => msgs[i].role = "system"

\* where each message of the result is said to come from
OutputPositions(msgs) ==
    IF Len(msgs) <= 6 THEN [k \in 1..Len(msgs) |-> k] ELSE RetainedPositions(msgs)

C7_ShortIdentityAmended ==
    (pc = "returned" /\ NumNonSystem(messages) <= 6 /\ NumLong(messages) = 0) =>
        LET keep == OutputPositions(messages) IN
        /\ result = [k \in 1..Len(keep) |-> messages[keep[k]]]
        /\ Len(keep) = Len(messages)
        /\ (Len(messages) <= 6 \/ SystemFirst(messages)) => result = messages

\* C7 witness: a conversation of more than 6 messages, at most 6 of them
\* non-system, whose system message sits in the middle.
C7_Witness ==
    /\ pc = "returned"
    /\ NumNonSystem(messages) <= 6
    /\ NumLong(messages) = 0
    /\ Len(messages) > 6
    /\ ~SystemFirst(messages)
    /\ result # messages

\* C8: every retained message over 1500 characters comes out as its first
\* 1500 characters followed by "...", in either branch and whatever its
\* role; retained messages of at most 1500 characters are unchanged.
C8_ClipEveryRetained ==
    pc = "returned" =>
        LET keep == OutputPositions(messages) IN
        /\ Len(result) = Len(keep)
        /\ \A k \in 1..Len(keep) :
              /\ result[k].role = messages[keep[k]].role
              /\ result[k].content = Clipped(messages[keep[k]].content)

(***************************************************************************)
(* Claims about _adapt_payload                                             *)
(***************************************************************************)
\* s[k:]
RECURSIVE Drop(_, _)
Drop(s, k) ==
    IF k <= 0 \/ s = <<>> THEN s
    ELSE IF s[1].n <= k THEN Drop(Tail(s), k - s[1].n)
    ELSE <<[c |-> s[1].c, n |-> s[1].n - k]>> \o Tail(s)

\* s.startswith(p)
StartsWith(s, p) == Take(s, StrLen(p)) = p

\* the substrings that make an identifier thinking-capable
ThinkingMarkers ==
    { <<"r","e","a","s","o","n","e","r">>, <<"t","h","i","n","k","i","n","g">>,
      <<"o","1">>, <<"o","3">> }

ThinkingCapable(model) == \E sub \in ThinkingMarkers : Contains(model, sub)

\* C9: for every model identifier and caller ceiling c in (0, 16384] the
\* max_tokens of the call is never lower than c; it differs from c only when
\* the identifier is thinking-capable and c < 16384, and then it is 16384.
C9_NeverLowered ==
    pc = "adapted" =>
        LET c == request.max_completion_tokens IN
        /\ kwargs.max_tokens >= c
        /\ kwargs.max_tokens # c =>
              /\ ThinkingCapable(request.model)
              /\ c < 16384
              /\ kwargs.max_tokens = 16384

\* C9 witness: a thinking-capable identifier whose ceiling, below the floor,
\* has been raised to it.
C9_Witness ==
    /\ pc = "adapted"
    /\ ThinkingCapable(request.model)
    /\ request.max_completion_tokens < 16384
    /\ kwargs.max_tokens = 16384

\* the stricter reasoning family: the identifier holds "o1-" or "o3-"
StrictFamily(model) ==
    Contains(model, <<"o","1","-">>) \/ Contains(model, <<"o","3","-">>)

\* C10: for an identifier of the o1-/o3- family every system-role message of
\* the outgoing list becomes a user-role message whose content is the
\* [SYSTEM INSTRUCTION] marker, a line break and the original content; no
\* system-role message is sent; the other messages and the order are kept.
\* For an identifier outside the family the list is sent as it is.
C10_RoleRewrite ==
    pc = "adapted" =>
        LET before == ToOpenaiMessages(request.messages)
            sent == kwargs.messages
        IN  IF StrictFamily(request.model)
            THEN /\ Len(sent) = Len(before)
                 /\ \A i \in 1..Len(sent) :
                       /\ sent[i].role # "system"
                       /\ IF before[i].role = "system"
                          THEN /\ sent[i].role = "user"
                               /\ sent[i].content =
                                     Cat(Cat(SystemInstructionMarker, Rep("\n", 1)),
                                         before[i].content)
                          ELSE sent[i] = before[i]
            ELSE sent = before

\* C10 witness: an o1-/o3- identifier, a request whose system message is not
\* the first message, sent with a rewritten message in that place.
C10_Witness ==
    /\ pc = "adapted"
    /\ StrictFamily(request.model)
    /\ \E i \in 2..Len(request.messages) :
          /\ request.messages[i].role = "system"
          /\ kwargs.messages[i].role = "user"
          /\ StartsWith(kwargs.messages[i].content, SystemInstructionMarker)

(***************************************************************************)
(* Claims about the conversation sent upstream                             *)
(***************************************************************************)
\* a message of the call as the request gave it: the role rewriting of the
\* o1-/o3- family undone
BeforeRewrite(msg) ==
    IF msg.role = "user" /\ StartsWith(msg.content, SystemInstructionPrefix)
    THEN [role |-> "system", content |-> Drop(msg.content, StrLen(SystemInstructionPrefix))]
    ELSE msg

\* at most 1500 characters, or 1500 characters and the marker "..."
WithinLimit(content) ==
    \/ StrLen(content) <= 1500
    \/ /\ StrLen(content) = 1503
       /\ Drop(content, 1500) = Rep(".", 3)

\* C5: on both endpoints the conversation of the upstream call has at most 6
\* non-system messages and every content is at most 1500 characters plus the
\* truncation marker.
C5_BoundsUpstream ==
    pc = "called" =>
        LET sent == [i \in 1..Len(kwargs.messages) |-> BeforeRewrite(kwargs.messages[i])]
        IN  /\ NumNonSystem(sent) <= 6
            /\ \A i \in 1..Len(sent) : WithinLimit(sent[i].content)

(***************************************************************************)
(* Claims about the SSE stream of generate_stream                          *)
(***************************************************************************)
\* the events yielded so far
Events == gen.out

CountKind(evs, kind) == Cardinality({i \in 1..Len(evs) : evs[i].kind = kind})

\* the stream is over: ended naturally, or on an exception
StreamOver == pc \in {"done", "errored", "raised"}

EndsWithDoneOnce(evs) ==
    /\ Len(evs) > 0
    /\ evs[Len(evs)].kind = "done"
    /\ CountKind(evs, "done") = 1

ErrorThenDone(evs) ==
    /\ Len(evs) >= 2
    /\ evs[Len(evs) - 1].kind = "error"
    /\ evs[Len(evs)].kind = "done"
    /\ CountKind(evs, "error") = 1
    /\ CountKind(evs, "done") = 1

RECURSIVE JoinData(_, _)
JoinData(evs, kind) ==
    IF evs = <<>> THEN <<>>
    ELSE Cat(IF evs[1].kind = kind THEN evs[1].data ELSE <<>>,
             JoinData(Tail(evs), kind))

\* the content extracted from the chunks, joined in arrival order; with
\* plainOnly, of the chunks that carry no reasoning
RECURSIVE JoinContent(_, _)
JoinContent(chunks, plainOnly) ==
    IF chunks = <<>> THEN <<>>
    ELSE LET got == ExtractContentFromChunk(chunks[1]) IN
         Cat(IF plainOnly /\ got.reasoning # <<>> THEN <<>> ELSE got.content,
             JoinContent(Tail(chunks), plainOnly))

\* C3 as stated: at natural end the flushed content, joined, is the content
\* extracted from all chunks, joined.
C3_AllContentFlushed ==
    pc = "done" => JoinData(Events, "content") = JoinContent(received, FALSE)

\* what the generator does deliver at natural end: the content of the chunks
\* that carry no reasoning, with nothing left in the buffer
PlainContentFlushed ==
    pc = "done" => JoinData(Events, "content") = JoinContent(received, TRUE)

\* C4 as stated: for chunks i < j no event carrying data of chunk j is sent
\* before an event carrying content of chunk i.
C4_ChunkOrder ==
    \A p, q \in 1..Len(Events) :
        (p < q /\ Events[q].kind = "content") =>
            \A j \in Events[p].src, i \in Events[q].src : ~(i < j)

\* C4 amended: content events are sent in the order of their chunks and so
\* are [THOUGHT] events; a [THOUGHT] event is sent when its chunk arrives, so
\* it may come before the flush of content buffered from earlier chunks, and
\* no other event is sent ahead of data from an earlier chunk.
C4_ChunkOrderButThoughts ==
    \A p, q \in 1..Len(Events) :
        p < q =>
            \A j \in Events[p].src, i \in Events[q].src :
                /\ i < j => (Events[p].kind = "thought" /\ Events[q].kind = "content")
                /\ i # j

\* C4 witness: a [THOUGHT] event was sent before the content event that
\* carries an earlier chunk, and a later content event followed.
C4_Witness ==
    /\ pc = "done"
    /\ \E p, q \in 1..Len(Events) :
          /\ p < q
          /\ Events[p].kind = "thought"
          /\ Events[q].kind = "content"
          /\ \E j \in Events[p].src, i \in Events[q].src : i < j
    /\ CountKind(Events, "content") >= 2

(***************************************************************************)
(* Claims on the prelude of the endpoints: validation.                     *)
(***************************************************************************)
HasUser(msgs) == \E i \in 1..Len(msgs) : msgs[i].role = "user"

\* C15: a request that passed validation at ingress is never validated
\* again: when truncation leaves no user-role message, the request is not
\* rejected and the truncated conversation goes to the upstream call.
C15_ValidatedOnce ==
    (/\ path \in {"chat", "chat_stream"}
     /\ ValidateMessages(request.messages)
     /\ ~HasUser(TruncateConversationHistory(request.messages)))
        => /\ pc = "called"
           /\ kwargs.messages =
                 ToOpenaiMessages(TruncateConversationHistory(request.messages))

(***************************************************************************)
(* Claims on one turn of the loop of generate_stream.                      *)
(***************************************************************************)
\* the data of the events, in emission order
DataOf(evs) == [i \in 1..Len(evs) |-> evs[i].data]

\* a chunk has just been taken from the upstream sequence
ChunkTaken == Len(received') = Len(received) + 1

\* the last character of a non-empty text is a sentence ending
EndsSentence(content) == content[Len(content)].c \in {".", "!", "?", "\n"}

\* the chunks `Hi`, ` there.`, ` More` of the example
HiThereMore ==
    << DeltaChunk(<<>>, Lit(<<"H","i">>), ""),
       DeltaChunk(<<>>, Lit(<<" ","t","h","e","r","e",".">>), ""),
       PlainChunk(NoAttr, Attr(Lit(<<" ","M","o","r","e">>)), NoAttr) >>

HiThereMoreEvents ==
    << Lit(<<"H","i"," ","t","h","e","r","e",".">>),
       Lit(<<" ","M","o","r","e">>),
       Lit(<<"[","D","O","N","E","]">>) >>

\* C19: after a chunk with non-empty content (and no reasoning) joins the
\* buffer, a content event is emitted at that chunk if and only if the
\* buffered text has reached 30 characters or the content just appended ends
\* with `.`, `!`, `?` or a newline; the event carries the whole buffer, which
\* is empty afterwards.  The chunks `Hi`, ` there.`, ` More` give exactly the
\* events `Hi there.`, ` More`, `[DONE]`.
C19_FlushRule ==
    /\ [][ChunkTaken =>
            LET got == ExtractContentFromChunk(received'[Len(received')])
                buffered == Cat(gen.chunk_buffer, got.content)
            IN  (got.reasoning = <<>> /\ got.content # <<>>) =>
                    IF StrLen(buffered) >= 30 \/ EndsSentence(got.content)
                    THEN /\ Len(gen'.out) = Len(gen.out) + 1
                         /\ SubSeq(gen'.out, 1, Len(gen.out)) = gen.out
                         /\ gen'.out[Len(gen'.out)].kind = "content"
                         /\ gen'.out[Len(gen'.out)].data = buffered
                         /\ gen'.chunk_buffer = <<>>
                         /\ gen'.buffer_size = 0
                    ELSE /\ gen'.out = gen.out
                         /\ gen'.chunk_buffer = buffered
                         /\ gen'.buffer_size = StrLen(buffered)]_vars
    /\ []((pc = "done" /\ received = HiThereMore)
            => DataOf(Events) = HiThereMoreEvents)

\* C19 witness: the example has run to its end: `Hi` stayed in the buffer,
\* ` there.` flushed it, ` More` was left for the final flush.
C19_Witness ==
    /\ pc = "done"
    /\ received = HiThereMore
    /\ DataOf(Events) = HiThereMoreEvents
    /\ gen.chunk_count = 2

\* C20: a chunk with non-empty reasoning makes exactly one event, the
\* `[THOUGHT] <reasoning>` event, emitted at that chunk, and leaves the
\* content buffer, the buffered-size counter and the count of flushed
\* content events unchanged.
C20_ThoughtFrame ==
    [][ChunkTaken =>
         LET got == ExtractContentFromChunk(received'[Len(received')]) IN
         got.reasoning # <<>> =>
             /\ Len(gen'.out) = Len(gen.out) + 1
             /\ SubSeq(gen'.out, 1, Len(gen.out)) = gen.out
             /\ gen'.out[Len(gen'.out)].kind = "thought"
             /\ gen'.out[Len(gen'.out)].data =
                    Cat(Lit(<<"[","T","H","O","U","G","H","T","]"," ">>), got.reasoning)
             /\ gen'.chunk_buffer = gen.chunk_buffer
             /\ gen'.buffer_size = gen.buffer_size
             /\ gen'.chunk_count = gen.chunk_count]_vars

\* C20 witness: a thought was emitted after a flush, while content was
\* waiting in the buffer.
C20_Witness ==
    /\ pc = "streaming"
    /\ Len(Events) >= 2
    /\ Events[Len(Events)].kind = "thought"
    /\ gen.chunk_count >= 1
    /\ gen.chunk_buffer # <<>>
    /\ Len(received) >= 1
    /\ ExtractContentFromChunk(received[Len(received)]).reasoning # <<>>

(***************************************************************************)
(* Claims on the answer of the non-streaming path.                         *)
(***************************************************************************)
\* the attribute holds a text of at least one character
HasText(x) == x.has /\ ~x.null /\ x.val # <<>>

\* the content fields the handler may probe, in the order of the probes;
\* those of choices[0] are absent when there is no choices[0]
ContentProbes(r) ==
    IF r.choices = "one"
    THEN <<r.choice.message.content, r.choice.message.text, r.choice.text, r.content>>
    ELSE <<Absent, Absent, Absent, r.content>>

\* the reasoning fields the handler may probe
ReasoningProbes(r) ==
    IF r.choices = "one"
    THEN <<r.choice.message.reasoning_content, r.reasoning_content>>
    ELSE <<Absent, r.reasoning_content>>

\* the result yields neither reply nor reasoning text
YieldsNothing(r) ==
    /\ ExtractReply(r).reply = <<>>
    /\ Falsy(ExtractReply(r).reasoning)

\* the finish reason recorded in the result
RecordedFinishReason(r) ==
    IF r.choices = "one" THEN r.choice.finish_reason ELSE "absent"

\* C11: an upstream result that yields neither reply nor reasoning text is
\* answered with status 400 if and only if its recorded finish reason is
\* `length` (the detail carrying the current token ceiling) and with status
\* 502 otherwise; it is never answered with a 500.
C11_EmptyStatus ==
    (pc = "answered" /\ YieldsNothing(response)) =>
        IF RecordedFinishReason(response) = "length"
        THEN /\ outcome.status = 400
             /\ outcome.max_tokens = payload.max_completion_tokens
        ELSE outcome.status = 502

\* C12: the answer is a success only when the result carried non-empty reply
\* text or non-empty reasoning text; a result whose probed content fields
\* are all absent, null or empty and whose reasoning is absent or empty is
\* answered as an empty response; a failure of the upstream call is
\* answered with status 500.
C12_SuccessOnlyWithText ==
    /\ (pc = "answered" /\ outcome.status = 200) =>
            \/ \E i \in 1..4 : HasText(ContentProbes(response)[i])
            \/ \E i \in 1..2 : HasText(ReasoningProbes(response)[i])
    /\ (/\ pc = "answered"
        /\ \A i \in 1..4 : ~HasText(ContentProbes(response)[i])
        /\ \A i \in 1..2 : ~HasText(ReasoningProbes(response)[i]))
            => outcome.how \in {"empty", "truncated"}
    /\ pc = "call_failed" => outcome.status = 500

\* the first probe, in the order of the probes, that holds non-blank text
RECURSIVE FirstYield(_)
FirstYield(probes) ==
    IF probes = <<>> THEN <<>>
    ELSE IF HasText(probes[1]) /\ Strip(probes[1].val) # <<>>
    THEN Strip(probes[1].val)
    ELSE FirstYield(Tail(probes))

\* C13: the reply is the text of the first probe, in the order
\* choices[0].message.content, choices[0].message.text, choices[0].text,
\* top-level content, that yields non-empty content: a later probe is used
\* whenever every earlier one is absent or empty, and two are never merged.
C13_FirstProbeWins ==
    pc = "answered" =>
        ExtractReply(response).reply = FirstYield(ContentProbes(response))

\* the result exposes a top-level .content holding a text, and nothing else
OnlyTopContent(r) ==
    /\ r.choices = "absent"
    /\ HasText(r.content)
    /\ ~r.reasoning_content.has
    /\ ~r.usage.has
    /\ ~r.model.has

Blank(s) == \A i \in 1..Len(s) : s[i].c \in Whitespace

\* t is s without its leading and trailing whitespace
IsStripped(t, s) ==
    /\ t # <<>> => t[1].c \notin Whitespace /\ t[Len(t)].c \notin Whitespace
    /\ \E i \in 1..(Len(s) + 1), j \in 0..Len(s) :
          /\ t = SubSeq(s, i, j)
          /\ Blank(SubSeq(s, 1, i - 1))
          /\ Blank(SubSeq(s, j + 1, Len(s)))

NoAliasTwice(infos) ==
    \A i, j \in 1..Len(infos) : infos[i].name = infos[j].name => i = j

\* the position of the first entry of the list that carries the alias
FirstOccurrence(entries, alias) ==
    CHOOSE i \in 1..Len(entries) :
        /\ entries[i].model_name = alias
        /\ \A j \in 1..(i - 1) : entries[j].model_name # alias

\* the file is read and every entry of its model_list is a well-formed
\* mapping, one of them at least with an alias
ListLoads(c) ==
    /\ c.exists /\ c.readable /\ c.document = "mapping" /\ c.model_list = "list"
    /\ \A i \in 1..Len(c.entries) : c.entries[i].litellm_params = "dict"
    /\ \E i \in 1..Len(c.entries) : c.entries[i].model_name # <<>>

\* C16: get_models returns the configured entries in configuration order
\* with no alias twice: every alias of the list is returned once, in the
\* order of the first occurrences, each descriptor is built from the first
\* occurrence of its alias, and later occurrences are ignored.
C16_FirstOccurrenceKept ==
    pc = "returned" =>
        /\ NoAliasTwice(model_infos)
        /\ ListLoads(config) =>
              /\ \A i \in 1..Len(config.entries) :
                    config.entries[i].model_name # <<>> =>
                        \E k \in 1..Len(model_infos) :
                            model_infos[k].name = config.entries[i].model_name
              /\ \A k \in 1..Len(model_infos) :
                    /\ \E i \in 1..Len(config.entries) :
                          config.entries[i].model_name = model_infos[k].name
                    /\ LET m == config.entries[FirstOccurrence(config.entries,
                                                               model_infos[k].name)]
                       IN  /\ model_infos[k].full_name = m.model
                           /\ model_infos[k].supports_thinking = m.supports_thinking
                           /\ model_infos[k].provider = Provider(m.model)
              /\ \A k, l \in 1..Len(model_infos) :
                    k < l => FirstOccurrence(config.entries, model_infos[k].name)
                             < FirstOccurrence(config.entries, model_infos[l].name)

\* C16 witness: an alias occurs twice with different model strings, another
\* alias between the two, and two descriptors were returned.
C16_Witness ==
    /\ pc = "returned"
    /\ ListLoads(config)
    /\ Len(config.entries) = 3
    /\ config.entries[1].model_name = config.entries[3].model_name
    /\ config.entries[1].model # config.entries[3].model
    /\ config.entries[2].model_name \notin {<<>>, config.entries[1].model_name}
    /\ Len(model_infos) = 2
    /\ model_infos[1].full_name = config.entries[1].model

\* the file is there and readable but gives no entry: an empty document, no
\* model_list, a model_list left empty
YieldsZeroEntries(c) ==
    /\ c.exists /\ c.readable /\ c.document # "invalid"
    /\ \/ c.document = "null"
       \/ c.model_list # "list"
       \/ c.entries = <<>>

\* loading fails outright: the document is no YAML, or an entry of the list
\* is malformed
LoadingFails(c) ==
    /\ c.exists /\ c.readable
    /\ \/ c.document = "invalid"
       \/ /\ c.document = "mapping" /\ c.model_list = "list"
          /\ \E i \in 1..Len(c.entries) : c.entries[i].litellm_params = "null"

IsSentinel(infos) ==
    Len(infos) = 1 /\ infos[1].name = <<"e","r","r","o","r">>

\* C17: get_models never returns an empty list; when the configuration is
\* missing, unreadable or yields zero entries it returns the built-in
\* fallback list; it returns the sentinel descriptor only when loading fails
\* outright.
C17_FallbackThenSentinel ==
    pc = "returned" =>
        /\ model_infos # <<>>
        /\ (~config.exists \/ ~config.readable \/ YieldsZeroEntries(config))
               => model_infos = FallbackModels
        /\ IsSentinel(model_infos) => LoadingFails(config)

(***************************************************************************)
(* Claims on concurrent requests.                                          *)
(***************************************************************************)
\* the locals of a generator that took the chunks alone, one after another
RECURSIVE RunLoop(_, _, _)
RunLoop(g, chunks, i) ==
    IF i > Len(chunks) THEN g
    ELSE RunLoop(LoopBody(g, chunks[i], i), chunks, i + 1)

\* what the call st would have made of its request and its chunks, had it
\* been the only call
Alone(st) ==
    LET p == ChatStreamPayload(st.request)
        g == RunLoop(NewStream, st.received, 1)
    IN  Stream(st.pc, st.request,
               AdaptedPayload(RequestedModel(p), p),
               AdaptPayload(RequestedModel(p), p),
               CASE st.pc = "done" -> AfterLoop(g)
                 [] st.pc = "errored" -> OnException(g, ExceptionMessage)
                 [] OTHER -> g,
               st.received)

\* C18: concurrent requests do not interfere: with streams interleaved where
\* they wait for their next chunk, each request emits the events it would
\* emit alone, its buffer, counters, payload and call arguments being its
\* own.
C18_NoInterference ==
    \A r \in Requests :
        streams[r].pc # "new" => streams[r] = Alone(streams[r])

\* C18 witness: two streams under way at once, the first with content
\* waiting in its buffer while the second, on another payload, has flushed
\* `Hi there.` and reached its end.
C18_Witness ==
    /\ streams[1].pc = "streaming"
    /\ Len(streams[1].received) = 2
    /\ streams[1].gen.chunk_buffer # <<>>
    /\ streams[2].pc = "done"
    /\ streams[2].gen.chunk_count = 1
    /\ Len(streams[2].gen.out) = 2
    /\ streams[2].gen.out[1].data = Lit(<<"H","i"," ","t","h","e","r","e",".">>)
    /\ streams[2].kwargs.model # streams[1].kwargs.model

(***************************************************************************)
(* Claims about the immediate-token-limit diagnostic                       *)
(***************************************************************************)
\* a chunk from which neither reasoning nor content is extracted
EmptyChunk(chunk) ==
    LET got == ExtractContentFromChunk(chunk)
    IN  got.reasoning = <<>> /\ got.content = <<>>

\* C21: at natural end the immediate-token-limit diagnostic is raised if and
\* only if the stream delivered at most 5 upstream chunks, no content event
\* was sent for the stream and at least one chunk was empty; [DONE] is sent
\* whether or not it is raised.
C21_DiagnosticIff ==
    pc = "done" =>
        /\ early_token_limit <=>
              /\ Len(received) <= 5
              /\ CountKind(Events, "content") = 0
              /\ \E i \in 1..Len(received) : EmptyChunk(received[i])
        /\ EndsWithDoneOnce(Events)

(***************************************************************************)
(* Claims about the request after _adapt_payload                           *)
(***************************************************************************)
\* C22: _adapt_payload changes no field of the request it is given: the
\* request the caller holds after the adaptation (messages, temperature,
\* max_completion_tokens, model) equals the request before it.
C22_AdaptLeavesRequest == pc = "adapted" => payload = request

(***************************************************************************)
(* Claims about a caller that disconnects                                  *)
(***************************************************************************)
\* the caller has just disconnected
Disconnects == pc = "streaming" /\ pc' = "closed"

\* C23: when the caller disconnects mid-stream, the generator being closed
\* where it is suspended, no further chunk is pulled from the upstream
\* sequence and no further event is emitted: the pending buffer is not
\* flushed, no Error event and no [DONE] are sent.
C23_CloseEmitsNothing ==
    [][/\ Disconnects =>
             /\ received' = received
             /\ gen'.out = gen.out
             /\ CountKind(gen'.out, "done") = 0
             /\ CountKind(gen'.out, "error") = 0
             /\ gen'.chunk_buffer = gen.chunk_buffer
       /\ pc = "closed" => (received' = received /\ gen' = gen)]_vars

\* C23 witness: the caller is gone after a flush and a thought, with content
\* of a later chunk still waiting in the buffer.
C23_Witness ==
    /\ pc = "closed"
    /\ gen.chunk_count > 0
    /\ CountKind(Events, "thought") > 0
    /\ gen.chunk_buffer # <<>>
    /\ Events[Len(Events)].kind # "done"

(***************************************************************************)
(* Claims on the prelude of the endpoints: the rebuilt request.            *)
(***************************************************************************)
\* the request the handler goes on with after the truncation
Rebuilt == IF path = "chat" THEN ChatPayload(request) ELSE ChatStreamPayload(request)

\* C24: on both endpoints, whether or not the truncation shortened the
\* conversation, the request the handler goes on with carries the model,
\* temperature and max_completion_tokens of the caller's request, and the
\* upstream call is made for the model the caller requested.
C24_CallerModelUpstream ==
    pc = "called" =>
        /\ Rebuilt.model = request.model
        /\ Rebuilt.temperature = request.temperature
        /\ Rebuilt.max_completion_tokens = request.max_completion_tokens
        /\ kwargs.model = <<"o","p","e","n","a","i","/">> \o RequestedModel(request)
        /\ kwargs.temperature = request.temperature

\* C25: on both endpoints, for every request and model, the conversation of
\* the upstream call is non-empty and holds a user-role message; a request
\* that is invalid at ingress, or whose form rebuilt after the truncation
\* has no user-role message, is rejected and no upstream call is made.
C25_UserMessageUpstream ==
    /\ pc = "called" =>
          /\ Rebuilt.messages # <<>>
          /\ HasUser(Rebuilt.messages)
          /\ kwargs.messages # <<>>
          /\ HasUser(kwargs.messages)
    /\ (/\ path \in {"chat", "chat_stream"}
        /\ \/ request.messages = <<>>
           \/ ~HasUser(request.messages)
           \/ ~HasUser(Rebuilt.messages))
          => /\ pc \in {"rejected", "failed"}
             /\ kwargs = NoKwargs

\* C25 witness: a request valid at ingress whose only user-role messages are
\* dropped by the truncation, rejected when it is rebuilt, with no call made.
C25_Witness ==
    /\ pc = "failed"
    /\ HasUser(request.messages)
    /\ ~HasUser(Rebuilt.messages)
    /\ NumSystem(request.messages) > 0
    /\ kwargs = NoKwargs

(***************************************************************************)
(* Claims about truncating twice                                           *)
(***************************************************************************)
\* C26: _truncate_conversation_history is idempotent: truncating its result
\* yields the same sequence of (role, content) pairs; the marker `...` is not
\* appended a second time and no further message is dropped or moved.
C26_TruncateIdempotent ==
    pc = "returned" => TruncateConversationHistory(result) = result

\* C26 witness: a result from which messages were dropped, with system
\* messages moved to the front and a content clipped to 1500 characters and
\* the marker, that truncation leaves as it is.
C26_Witness ==
    /\ pc = "returned"
    /\ Len(result) < Len(messages)
    /\ NumSystem(result) > 0
    /\ messages[1].role # "system"
    /\ \E i \in 1..Len(result) :
          /\ StrLen(result[i].content) = _max_message_length + 3
          /\ Drop(result[i].content, _max_message_length) = Ellipsis
    /\ TruncateConversationHistory(result) = result

(***************************************************************************)
(* Claims about the pending buffer                                         *)
(***************************************************************************)
\* C27: between the chunks of a stream the size counter equals the length of
\* the pending buffer, which is shorter than 30 characters; every content
\* event sent has a non-empty payload.
C27_BufferBelowThreshold ==
    /\ pc = "streaming" =>
          /\ gen.buffer_size = StrLen(gen.chunk_buffer)
          /\ gen.buffer_size < max_buffer_size
    /\ \A i \in 1..Len(Events) :
          Events[i].kind = "content" => StrLen(Events[i].data) > 0

\* C27 witness: after a flush, 29 characters wait in the buffer.
C27_Witness ==
    /\ pc = "streaming"
    /\ gen.chunk_count > 0
    /\ gen.buffer_size = max_buffer_size - 1
    /\ StrLen(gen.chunk_buffer) = max_buffer_size - 1

(***************************************************************************)
(* Claims about the content of a failed stream                             *)
(***************************************************************************)
\* the position of the last chunk whose content was flushed, 0 if none was
FlushedUpTo(evs) ==
    LET flushed == UNION { evs[i].src : i \in { j \in 1..Len(evs) : evs[j].kind = "content" } }
    IN  IF flushed = {} THEN 0 ELSE CHOOSE m \in flushed : \A x \in flushed : x <= m

\* no content event comes after an Error event
NoContentAfterError(evs) ==
    \A p, q \in 1..Len(evs) : (evs[p].kind = "error" /\ p < q) => evs[q].kind # "content"

\* C28: when the upstream sequence raises, the content waiting in the buffer
\* is discarded: no content event is sent after the failure, and the content
\* events of the failed stream, joined, are the content received up to the
\* last flush before the failure.
C28_FailedStreamPrefix ==
    pc \in {"errored", "raised"} =>
        /\ NoContentAfterError(Events)
        /\ CountKind(Events, "content") = gen.chunk_count
        /\ JoinData(Events, "content") =
              JoinContent(SubSeq(received, 1, FlushedUpTo(Events)), FALSE)

(***************************************************************************)
(* Claims about the default system message                                 *)
(***************************************************************************)
\* the messages of the call as _to_openai_messages made them: the role
\* rewriting of the o1-/o3- family undone
SentBeforeRewrite ==
    [i \in 1..Len(kwargs.messages) |->
        IF StrictFamily(request.model)
        THEN BeforeRewrite(kwargs.messages[i])
        ELSE kwargs.messages[i]]

====
